---- MODULE Spec2Model ----
\* MacBook Device API Service (server.js): the data load at startup, the Express
\* route table, the four device handlers and the three query helpers
\* (filterByStatus, searchDevices, sortDevices).
\*
\* JavaScript strings are sequences of UTF-16 code units (ASCII here), so that
\* toLowerCase, includes, === and the relational operator > are computed, not
\* assumed.  Every other JavaScript value is a tagged record [t, v].
EXTENDS Integers, Sequences, FiniteSets, TLC

VARIABLES pc, engine, source, macbookData, req, res, again

vars == <<pc, engine, source, macbookData, req, res, again>>

\* ---------------------------------------------------------------- bounds

\* Longest device array of one group in the JSON document.
MaxGroup == 2

\* ------------------------------------------------------- string literals

S_empty == <<>>
\* 'air'
S_air == <<97, 105, 114>>
\* 'pro'
S_pro == <<112, 114, 111>>
\* 'desc'
S_desc == <<100, 101, 115, 99>>
\* 'asc'
S_asc == <<97, 115, 99>>
\* 'release_date'
S_release_date == <<114, 101, 108, 101, 97, 115, 101, 95, 100, 97, 116, 101>>
\* 'supported_end_date'
S_supported_end_date == <<115, 117, 112, 112, 111, 114, 116, 101, 100, 95, 101, 110, 100, 95, 100, 97, 116, 101>>
\* 'model_name'
S_model_name == <<109, 111, 100, 101, 108, 95, 110, 97, 109, 101>>
\* 'model_id'
S_model_id == <<109, 111, 100, 101, 108, 95, 105, 100>>
\* 'support_status'
S_support_status == <<115, 117, 112, 112, 111, 114, 116, 95, 115, 116, 97, 116, 117, 115>>
\* 'latest_macos_supported'
S_latest_macos_supported == <<108, 97, 116, 101, 115, 116, 95, 109, 97, 99, 111, 115, 95, 115, 117, 112, 112, 111, 114, 116, 101, 100>>
\* 'macbook-air'
S_macbook_air == <<109, 97, 99, 98, 111, 111, 107, 45, 97, 105, 114>>
\* 'macbook-pro'
S_macbook_pro == <<109, 97, 99, 98, 111, 111, 107, 45, 112, 114, 111>>
\* 'health'
S_health == <<104, 101, 97, 108, 116, 104>>
\* 'api'
S_api == <<97, 112, 105>>
\* 'devices'
S_devices == <<100, 101, 118, 105, 99, 101, 115>>
\* 'support-status'
S_support_dash_status == <<115, 117, 112, 112, 111, 114, 116, 45, 115, 116, 97, 116, 117, 115>>
\* 'docs'
S_docs == <<100, 111, 99, 115>>

\* ------------------------------------------------------ JavaScript values

Undef == [t |-> "undefined", v |-> <<>>]

Str(s) == [t |-> "string", v |-> s]

\* A query parameter given more than once (?search=a&search=b): an array.
ArrayParam == [t |-> "array", v |-> <<>>]

\* A Date object; n is its time value in days since the epoch (the time value
\* of a UTC midnight is 86400000 ms times that number of days).
DateOf(n) == [t |-> "date", v |-> <<n>>]

\* A Date object whose time value is NaN (Invalid Date).
InvalidDate == [t |-> "date", v |-> <<>>]

\* An object parsed from JSON whose content no handler looks into.
Obj(name) == [t |-> "object", v |-> name]

\* ToBoolean, as `if (x)` applies it to a query parameter.
Truthy(x) == ~(x = Undef \/ x = Str(S_empty))

\* String.prototype.toLowerCase on ASCII code units.
toLowerCase(s) == [i \in 1..Len(s) |-> IF s[i] >= 65 /\ s[i] <= 90 THEN s[i] + 32 ELSE s[i]]

\* String.prototype.includes.
includes(hay, needle) ==
  \E i \in 0..(Len(hay) - Len(needle)) : SubSeq(hay, i + 1, i + Len(needle)) = needle

\* a > b on two strings: code unit order, a proper prefix is smaller.
StrGt(a, b) ==
  \E i \in 1..Len(a) :
     /\ \A j \in 1..(i - 1) : j <= Len(b) /\ a[j] = b[j]
     /\ (i > Len(b) \/ a[i] > b[i])

\* The relational operator a > b of the comparator: two Dates compare by time
\* value (false when either is NaN), two strings by code units; undefined
\* converts to NaN, which makes every comparison false.
Gt(a, b) ==
  IF a.t = "date" /\ b.t = "date"
    THEN a.v # <<>> /\ b.v # <<>> /\ a.v[1] > b.v[1]
  ELSE IF a.t = "string" /\ b.t = "string"
    THEN StrGt(a.v, b.v)
  ELSE FALSE

\* new Date(x) for the values the comparator passes: a date-only ISO string
\* 'YYYY-MM-DD' gives the UTC midnight of that day, counted from the epoch with
\* the proleptic Gregorian calendar; undefined and a string that is no month
\* 1..12 / day 1..31 of that form give Invalid Date.  Only date-only ISO strings
\* are drawn as date fields.
Digit(c) == c - 48

IsDigit(c) == c >= 48 /\ c <= 57

DaysFromCivil(y, m, d) ==
  LET yy  == IF m <= 2 THEN y - 1 ELSE y
      era == yy \div 400
      yoe == yy - era * 400
      mp  == IF m > 2 THEN m - 3 ELSE m + 9
      doy == (153 * mp + 2) \div 5 + d - 1
      doe == yoe * 365 + yoe \div 4 - yoe \div 100 + doy
  IN era * 146097 + doe - 719468

NewDate(x) ==
  IF x.t # "string" \/ Len(x.v) # 10 THEN InvalidDate
  ELSE LET s == x.v
           y == Digit(s[1]) * 1000 + Digit(s[2]) * 100 + Digit(s[3]) * 10 + Digit(s[4])
           m == Digit(s[6]) * 10 + Digit(s[7])
           d == Digit(s[9]) * 10 + Digit(s[10])
       IN IF /\ \A i \in {1, 2, 3, 4, 6, 7, 9, 10} : IsDigit(s[i])
             /\ s[5] = 45 /\ s[8] = 45
             /\ m >= 1 /\ m <= 12 /\ d >= 1 /\ d <= 31
            THEN DateOf(DaysFromCivil(y, m, d))
            ELSE InvalidDate

\* ------------------------------------------------- devices of the JSON file

\* 'Air (M1)'
N_a1 == <<65, 105, 114, 32, 40, 77, 49, 41>>
\* 'Air 2018'
N_a2 == <<65, 105, 114, 32, 50, 48, 49, 56>>
\* 'Pro (M1)'
N_p1 == <<80, 114, 111, 32, 40, 77, 49, 41>>
\* 'Pro 2012'
N_p2 == <<80, 114, 111, 32, 50, 48, 49, 50>>
\* 'Pro 13'
N_p3 == <<80, 114, 111, 32, 49, 51>>
\* 'Air10,1'
I_a1 == <<65, 105, 114, 49, 48, 44, 49>>
\* 'Air8,1'
I_a2 == <<65, 105, 114, 56, 44, 49>>
\* 'Pro17,1'
I_p1 == <<80, 114, 111, 49, 55, 44, 49>>
\* 'Pro9,2'
I_p2 == <<80, 114, 111, 57, 44, 50>>
\* '2020-11-17'
D_2020_11_17 == <<50, 48, 50, 48, 45, 49, 49, 45, 49, 55>>
\* '2018-10-30'
D_2018_10_30 == <<50, 48, 49, 56, 45, 49, 48, 45, 51, 48>>
\* '2012-06-11'
D_2012_06_11 == <<50, 48, 49, 50, 45, 48, 54, 45, 49, 49>>
\* '2027-11-17'
D_2027_11_17 == <<50, 48, 50, 55, 45, 49, 49, 45, 49, 55>>
\* '2025-10-30'
D_2025_10_30 == <<50, 48, 50, 53, 45, 49, 48, 45, 51, 48>>
\* '2019-06-11'
D_2019_06_11 == <<50, 48, 49, 57, 45, 48, 54, 45, 49, 49>>
\* 'supported'
S_supported == <<115, 117, 112, 112, 111, 114, 116, 101, 100>>
\* 'vintage'
S_vintage == <<118, 105, 110, 116, 97, 103, 101>>
\* 'obsolete'
S_obsolete == <<111, 98, 115, 111, 108, 101, 116, 101>>
\* 'Vintage'
S_Vintage == <<86, 105, 110, 116, 97, 103, 101>>
\* 'macOS 15'
S_macOS15 == <<109, 97, 99, 79, 83, 32, 49, 53>>
\* 'macOS 10'
S_macOS10 == <<109, 97, 99, 79, 83, 32, 49, 48>>
\* 'Pro'
S_Pro == <<80, 114, 111>>
\* 'mini'
S_mini == <<109, 105, 110, 105>>
\* 'foo'
S_foo == <<102, 111, 111>>
\* 'MacBook-Air'
S_MacBook_Air == <<77, 97, 99, 66, 111, 111, 107, 45, 65, 105, 114>>
\* 'nope'
S_nope == <<110, 111, 112, 101>>

Device(name, id, released, status, ends, macos) ==
  [model_name |-> name, model_id |-> id, release_date |-> released,
   support_status |-> status, supported_end_date |-> ends,
   latest_macos_supported |-> macos]

\* Two Air and two Pro records in the README's shape: a1 and p1 share their
\* dates and status, the names differ in letter case from the search terms.
dev_a1 == Device(Str(N_a1), Str(I_a1), Str(D_2020_11_17), Str(S_supported), Str(D_2027_11_17), Str(S_macOS15))

dev_a2 == Device(Str(N_a2), Str(I_a2), Str(D_2018_10_30), Str(S_vintage), Str(D_2025_10_30), Str(S_macOS15))

dev_p1 == Device(Str(N_p1), Str(I_p1), Str(D_2020_11_17), Str(S_supported), Str(D_2027_11_17), Str(S_macOS15))

dev_p2 == Device(Str(N_p2), Str(I_p2), Str(D_2012_06_11), Str(S_obsolete), Str(D_2019_06_11), Str(S_macOS10))

\* A record that has no model_id property.
dev_p3 == Device(Str(N_p3), Undef, Str(D_2018_10_30), Str(S_vintage), Str(D_2025_10_30), Str(S_macOS15))

AirPool == {dev_a1, dev_a2}

ProPool == {dev_p1, dev_p2}

\* A Device of the data model: six string fields, the two dates parseable.
IsDevice(d) ==
  /\ \A f \in {"model_name", "model_id", "release_date", "support_status",
               "supported_end_date", "latest_macos_supported"} : d[f].t = "string"
  /\ NewDate(d.release_date) # InvalidDate
  /\ NewDate(d.supported_end_date) # InvalidDate

\* Sequences of at most n distinct elements of S.
InjSeqs(S, n) ==
  UNION {{s \in [1..k -> S] : \A i, j \in 1..k : i # j => s[i] # s[j]} : k \in 0..n}

\* --------------------------------------------- the JSON source and its load

\* What JSON.parse returns for a document {macbook_models: {macbook_air,
\* macbook_pro}, support_status_definitions, notes}.
Document(air, pro) ==
  [t |-> "object",
   macbook_models |-> [t |-> "object", macbook_air |-> air, macbook_pro |-> pro],
   support_status_definitions |-> Obj("support_status_definitions"),
   notes |-> Obj("notes")]

\* JSON.parse('{}').
EmptyDocument ==
  [t |-> "object",
   macbook_models |-> [t |-> "undefined", macbook_air |-> <<>>, macbook_pro |-> <<>>],
   support_status_definitions |-> Undef, notes |-> Undef]

\* A document with the device groups and no metadata keys.
NoMetadataDocument ==
  [Document(<<dev_a1>>, <<dev_p1>>) EXCEPT !.support_status_definitions = Undef, !.notes = Undef]

\* A document one of whose records lacks a property.
IncompleteRecordDocument == Document(<<dev_a1>>, <<dev_p3, dev_p1>>)

\* JSON.parse('null').
NullDocument == [EmptyDocument EXCEPT !.t = "null"]

\* `let macbookData;` before the assignment.
Unassigned == [EmptyDocument EXCEPT !.t = "undefined"]

FullDocuments ==
  {Document(a, p) : a \in InjSeqs(AirPool, MaxGroup), p \in InjSeqs(ProPool, MaxGroup)}

\* The file at data/macbook_models_2010_2025.json: absent, not JSON, or JSON.
Sources ==
  {[kind |-> "missing", doc |-> Unassigned], [kind |-> "unparseable", doc |-> Unassigned]}
    \cup {[kind |-> "json", doc |-> d] :
            d \in FullDocuments \cup {EmptyDocument, NoMetadataDocument,
                                       IncompleteRecordDocument, NullDocument}}

\* The document has both device groups, made of Devices, and the metadata.
Populated(md) ==
  /\ md.t = "object"
  /\ md.macbook_models.t = "object"
  /\ \A i \in 1..Len(md.macbook_models.macbook_air) : IsDevice(md.macbook_models.macbook_air[i])
  /\ \A i \in 1..Len(md.macbook_models.macbook_pro) : IsDevice(md.macbook_models.macbook_pro[i])
  /\ md.support_status_definitions # Undef
  /\ md.notes # Undef

\* ------------------------------------------------------- the comparator

\* device[key]: an own property of the record, or undefined.
Get(d, key) ==
  IF key = Str(S_model_name) THEN d.model_name
  ELSE IF key = Str(S_model_id) THEN d.model_id
  ELSE IF key = Str(S_release_date) THEN d.release_date
  ELSE IF key = Str(S_support_status) THEN d.support_status
  ELSE IF key = Str(S_supported_end_date) THEN d.supported_end_date
  ELSE IF key = Str(S_latest_macos_supported) THEN d.latest_macos_supported
  ELSE Undef

\* A comparator that reads the order parameter the wrong way round.
compareSwapped(a, b, sortBy, order) ==
  LET isDate == sortBy = Str(S_release_date) \/ sortBy = Str(S_supported_end_date)
      aValue == IF isDate THEN NewDate(Get(a, sortBy)) ELSE Get(a, sortBy)
      bValue == IF isDate THEN NewDate(Get(b, sortBy)) ELSE Get(b, sortBy)
  IN IF order # Str(S_desc)
       THEN (IF Gt(bValue, aValue) THEN 1 ELSE -1)
       ELSE (IF Gt(aValue, bValue) THEN 1 ELSE -1)

\* The arrow function given to sort: 1 or -1, never 0.
compare(a, b, sortBy, order) ==
  LET isDate == sortBy = Str(S_release_date) \/ sortBy = Str(S_supported_end_date)
      aValue == IF isDate THEN NewDate(Get(a, sortBy)) ELSE Get(a, sortBy)
      bValue == IF isDate THEN NewDate(Get(b, sortBy)) ELSE Get(b, sortBy)
  IN IF order = Str(S_desc)
       THEN (IF Gt(bValue, aValue) THEN 1 ELSE -1)
       ELSE (IF Gt(aValue, bValue) THEN 1 ELSE -1)

\* ------------------------------------------------ Array.prototype.sort
\* The comparator never returns 0, so it is not a consistent comparison
\* function and the order sort produces is left to the JavaScript engine.  Two
\* engines are modelled, as they act on arrays of the lengths drawn here; which
\* one runs the server is fixed when the process starts.
\*   "timsort":   V8 7.0 and later (Node 11+, the devcontainer's Node 18): one
\*                run is counted, reversed when descending, and the rest is
\*                added by binary insertion.
\*   "insertion": V8 before 7.0 on short arrays: straight insertion.
Engines == {"timsort", "insertion"}

ReverseRange(a, n) == [i \in 1..Len(a) |-> IF i <= n THEN a[n + 1 - i] ELSE a[i]]

RECURSIVE RunLength(_, _, _, _, _)
RunLength(a, idx, isDescending, sortBy, order) ==
  IF idx > Len(a) THEN Len(a)
  ELSE LET o == compare(a[idx], a[idx - 1], sortBy, order)
       IN IF (isDescending /\ o >= 0) \/ (~isDescending /\ o < 0)
            THEN idx - 1
            ELSE RunLength(a, idx + 1, isDescending, sortBy, order)

\* The array with its first run made ascending, and the length of that run.
CountAndMakeRun(a, sortBy, order) ==
  IF Len(a) < 2 THEN [a |-> a, run |-> Len(a)]
  ELSE LET isDescending == compare(a[2], a[1], sortBy, order) < 0
           n == RunLength(a, 3, isDescending, sortBy, order)
       IN [a |-> IF isDescending THEN ReverseRange(a, n) ELSE a, run |-> n]

\* The number of elements of a[1..right] the pivot is placed after.
RECURSIVE BinarySearch(_, _, _, _, _, _)
BinarySearch(a, pivot, left, right, sortBy, order) ==
  IF left >= right THEN left
  ELSE LET mid == left + (right - left) \div 2
       IN IF compare(pivot, a[mid + 1], sortBy, order) < 0
            THEN BinarySearch(a, pivot, left, mid, sortBy, order)
            ELSE BinarySearch(a, pivot, mid + 1, right, sortBy, order)

\* a with the element at index from moved to index to (to <= from).
MoveTo(a, from, to) ==
  [i \in 1..Len(a) |-> IF i < to \/ i > from THEN a[i]
                       ELSE IF i = to THEN a[from] ELSE a[i - 1]]

RECURSIVE BinaryInsertionSort(_, _, _, _)
BinaryInsertionSort(a, start, sortBy, order) ==
  IF start >= Len(a) THEN a
  ELSE LET left == BinarySearch(a, a[start + 1], 0, start, sortBy, order)
       IN BinaryInsertionSort(MoveTo(a, start + 1, left + 1), start + 1, sortBy, order)

TimSort(a, sortBy, order) ==
  LET r == CountAndMakeRun(a, sortBy, order)
  IN BinaryInsertionSort(r.a, r.run, sortBy, order)

\* The index after which the element is placed, scanning down from j.
RECURSIVE InsertAfter(_, _, _, _, _)
InsertAfter(a, element, j, sortBy, order) ==
  IF j = 0 THEN 0
  ELSE IF compare(a[j], element, sortBy, order) > 0
         THEN InsertAfter(a, element, j - 1, sortBy, order)
         ELSE j

RECURSIVE InsertionSort(_, _, _, _)
InsertionSort(a, i, sortBy, order) ==
  IF i > Len(a) THEN a
  ELSE LET j == InsertAfter(a, a[i], i - 1, sortBy, order)
       IN InsertionSort(MoveTo(a, i, j + 1), i + 1, sortBy, order)

ArraySort(a, sortBy, order) ==
  IF engine = "timsort" THEN TimSort(a, sortBy, order) ELSE InsertionSort(a, 2, sortBy, order)

\* ------------------------------------------------------ arrays in memory
\* A handler's variable holds a reference to an array: one of the two arrays
\* of the Dataset Store ("air", "pro") or an array the request allocated
\* ("tmp"; a new allocation replaces the previous one, which nothing refers to
\* any more).  An environment is the arrays, the variable's reference, and the
\* message of the exception thrown so far ("" for none).
Heap(md) ==
  [air |-> md.macbook_models.macbook_air, pro |-> md.macbook_models.macbook_pro, tmp |-> <<>>]

Env(md) == [heap |-> Heap(md), ref |-> "tmp", thrown |-> ""]

At(e) == e.heap[e.ref]

Alloc(e, arr) == [e EXCEPT !.heap.tmp = arr, !.ref = "tmp"]

Throw(e, msg) == [e EXCEPT !.thrown = msg]

\* The TypeError of reading macbookData.macbook_models.macbook_air, "" if none.
ModelsError(md) ==
  IF md.t = "null" THEN "Cannot read properties of null (reading 'macbook_models')"
  ELSE IF md.t = "undefined" THEN "Cannot read properties of undefined (reading 'macbook_models')"
  ELSE IF md.macbook_models.t # "object" THEN "Cannot read properties of undefined (reading 'macbook_air')"
  ELSE ""

\* [...macbook_air, ...macbook_pro]
SpreadAll(md) ==
  IF ModelsError(md) # "" THEN Throw(Env(md), ModelsError(md))
  ELSE Alloc(Env(md), md.macbook_models.macbook_air \o md.macbook_models.macbook_pro)

\* [...macbookData.macbook_models[group]]
SpreadGroup(md, group) ==
  IF ModelsError(md) # "" THEN Throw(Env(md), ModelsError(md))
  ELSE Alloc(Env(md), Heap(md)[group])

\* ---------------------------------------------------------- the helpers

\* A status filter that ignores letter case.
filterByStatusAnyCase(e, status) ==
  Alloc(e, SelectSeq(At(e), LAMBDA d : toLowerCase(d.support_status.v) = toLowerCase(status.v)))

filterByStatus(e, status) ==
  Alloc(e, SelectSeq(At(e), LAMBDA d : d.support_status = status))

\* A search that leaves support_status out.
searchDevicesTwoFields(e, searchTerm) ==
  IF searchTerm.t # "string" THEN Throw(e, "searchTerm.toLowerCase is not a function")
  ELSE LET term == toLowerCase(searchTerm.v)
           Has(x) == x.t = "string" /\ includes(toLowerCase(x.v), term)
           Throws(d) == d.model_name = Undef \/ (~Has(d.model_name) /\ d.model_id = Undef)
       IN IF \E i \in 1..Len(At(e)) : Throws(At(e)[i])
            THEN Throw(e, "Cannot read properties of undefined (reading 'toLowerCase')")
            ELSE Alloc(e, SelectSeq(At(e), LAMBDA d : Has(d.model_name) \/ Has(d.model_id)))

\* The predicate is evaluated left to right and stops at the first field that
\* matches; reading toLowerCase of a missing field throws.
searchDevices(e, searchTerm) ==
  IF searchTerm.t # "string" THEN Throw(e, "searchTerm.toLowerCase is not a function")
  ELSE LET term == toLowerCase(searchTerm.v)
           Has(x) == x.t = "string" /\ includes(toLowerCase(x.v), term)
           Throws(d) ==
             \/ d.model_name = Undef
             \/ /\ ~Has(d.model_name)
                /\ \/ d.model_id = Undef
                   \/ ~Has(d.model_id) /\ d.support_status = Undef
       IN IF \E i \in 1..Len(At(e)) : Throws(At(e)[i])
            THEN Throw(e, "Cannot read properties of undefined (reading 'toLowerCase')")
            ELSE Alloc(e, SelectSeq(At(e),
                   LAMBDA d : Has(d.model_name) \/ Has(d.model_id) \/ Has(d.support_status)))

\* The parameter defaults of sortDevices.
SortByOrDefault(sortBy) == IF sortBy = Undef THEN Str(S_release_date) ELSE sortBy

OrderOrDefault(order) == IF order = Undef THEN Str(S_desc) ELSE order

\* devices.sort(...) with no copy: the array the variable refers to is sorted.
sortDevicesInPlace(e, sortBy, order) ==
  [e EXCEPT !.heap[e.ref] = ArraySort(At(e), SortByOrDefault(sortBy), OrderOrDefault(order))]

\* A sort that first drops the devices that have no value under the key.
sortDevicesDefined(e, sortBy, order) ==
  Alloc(e, ArraySort(SelectSeq(At(e), LAMBDA d : Get(d, SortByOrDefault(sortBy)) # Undef),
                     SortByOrDefault(sortBy), OrderOrDefault(order)))

\* [...devices].sort(comparator)
sortDevices(e, sortBy, order) ==
  Alloc(e, ArraySort(At(e), SortByOrDefault(sortBy), OrderOrDefault(order)))

\* ------------------------------------------------------------ responses

\* res.json(body) and res.status(code).json(body).
Json(code, body) == [status |-> code, body |-> body]

\* A catch block that answers without setting the status.
InternalErrorNoStatus(message) ==
  Json(200, [success |-> FALSE, error |-> "Internal server error", message |-> message])

\* The catch block of the four device handlers.
InternalError(message) ==
  Json(500, [success |-> FALSE, error |-> "Internal server error", message |-> message])

\* The list envelope of GET /api/devices.
ListWithMetadata(e, md) ==
  Json(200, [success |-> TRUE, count |-> Len(At(e)), data |-> At(e),
             metadata |-> [support_status_definitions |-> md.support_status_definitions,
                           notes |-> md.notes]])

\* The list envelope of the two group routes.
List(e) == Json(200, [success |-> TRUE, count |-> Len(At(e)), data |-> At(e)])

\* What a handler leaves in macbookData: the arrays as the request left them.
Store(md, e) ==
  [md EXCEPT !.macbook_models.macbook_air = e.heap.air,
             !.macbook_models.macbook_pro = e.heap.pro]

\* --------------------------------------------------------- the pipeline

\* A type selection that compares the parameter as given.
selectTypeExact(e, type) ==
  IF e.thrown # "" \/ ~Truthy(type) THEN e
  ELSE IF type.t # "string" THEN Throw(e, "type.toLowerCase is not a function")
  ELSE IF type.v = S_air THEN [e EXCEPT !.ref = "air"]
  ELSE IF type.v = S_pro THEN [e EXCEPT !.ref = "pro"]
  ELSE e

\* if (type) {...}: the variable is pointed at the store's own array.
selectType(e, type) ==
  IF e.thrown # "" \/ ~Truthy(type) THEN e
  ELSE IF type.t # "string" THEN Throw(e, "type.toLowerCase is not a function")
  ELSE IF toLowerCase(type.v) = S_air THEN [e EXCEPT !.ref = "air"]
  ELSE IF toLowerCase(type.v) = S_pro THEN [e EXCEPT !.ref = "pro"]
  ELSE e

\* if (status) devices = filterByStatus(devices, status)
statusStep(e, status) ==
  IF e.thrown # "" \/ ~Truthy(status) THEN e ELSE filterByStatus(e, status)

\* if (search) devices = searchDevices(devices, search)
searchStep(e, search) ==
  IF e.thrown # "" \/ ~Truthy(search) THEN e ELSE searchDevices(e, search)

\* if (sort_by) devices = sortDevices(devices, sort_by, order)
sortStep(e, sort_by, order) ==
  IF e.thrown # "" \/ ~Truthy(sort_by) THEN e ELSE sortDevices(e, sort_by, order)

\* The environment at the end of the try block of GET /api/devices.
devicesPipeline(md, q) ==
  sortStep(searchStep(statusStep(selectType(SpreadAll(md), q.type), q.status), q.search),
           q.sort_by, q.order)

\* The environment at the end of the try block of a group route.
groupPipeline(md, group, q) ==
  sortStep(searchStep(statusStep(SpreadGroup(md, group), q.status), q.search),
           q.sort_by, q.order)

\* A lookup that matches the id against the name.
findDeviceByName(devices, modelId) ==
  SelectSeq(devices, LAMBDA d : d.model_name = Str(modelId))

\* allDevices.find(d => d.model_id === modelId): the matches, first one first.
findDevice(devices, modelId) ==
  SelectSeq(devices, LAMBDA d : d.model_id = Str(modelId))

\* The response of GET /api/devices/:modelId.
lookupResponse(md, modelId) ==
  LET e == SpreadAll(md)
      found == findDevice(At(e), modelId)
  IN IF e.thrown # "" THEN InternalError(e.thrown)
     ELSE IF found = <<>>
       THEN Json(404, [success |-> FALSE, error |-> "Device not found",
                       message |-> <<"No device found with model ID: ", modelId>>])
     ELSE Json(200, [success |-> TRUE, data |-> found[1]])

\* The error-handling middleware, reached when a handler throws outside a try.
errorHandler == 
  Json(500, [success |-> FALSE, error |-> "Internal server error",
             message |-> "Something went wrong on our end"])

\* The response of GET /api/support-status.
supportStatusResponse(md) ==
  IF md.t # "object" THEN errorHandler
  ELSE Json(200, [success |-> TRUE, data |-> md.support_status_definitions])

\* ------------------------------------------------------ the route table

\* 'Air10,1' in lower case
I_a1_lower == <<97, 105, 114, 49, 48, 44, 49>>

\* A path is its sequence of non-empty segments, so that /api/devices and
\* /api/devices/ are the same path (Express matches an optional trailing
\* slash).  The routes in the order of their registration; Express compares
\* path literals without regard to letter case.
Route(path) ==
  LET p == [i \in 1..Len(path) |-> toLowerCase(path[i])]
  IN IF p = <<S_health>> THEN "/health"
     ELSE IF p = <<S_api, S_devices>> THEN "/api/devices"
     ELSE IF p = <<S_api, S_devices, S_macbook_air>> THEN "/api/devices/macbook-air"
     ELSE IF p = <<S_api, S_devices, S_macbook_pro>> THEN "/api/devices/macbook-pro"
     ELSE IF Len(p) = 3 /\ p[1] = S_api /\ p[2] = S_devices THEN "/api/devices/:modelId"
     ELSE IF p = <<S_api, S_support_dash_status>> THEN "/api/support-status"
     ELSE IF p = <<S_api, S_docs>> THEN "/api/docs"
     ELSE IF p = <<>> THEN "/"
     ELSE "*"

\* The path of GET /api/devices/<id>, id a non-empty path segment.
DevicePath(id) == <<S_api, S_devices, id>>

\* ---------------------------------------------------------- the requests

TypeParams == {Undef, Str(S_empty), Str(S_air), Str(S_Pro), Str(S_mini), ArrayParam}

StatusParams == {Undef, Str(S_empty), Str(S_vintage), Str(S_Vintage)}

SearchParams == {Undef, Str(S_empty), Str(S_Pro), Str(S_Vintage), ArrayParam}

SortByParams == {Undef, Str(S_release_date), Str(S_supported_end_date), Str(S_model_name), Str(S_foo)}

OrderParams == {Undef, Str(S_asc), Str(S_desc)}

NoQuery == [type |-> Undef, status |-> Undef, search |-> Undef, sort_by |-> Undef, order |-> Undef]

DevicesQueries ==
  [type : TypeParams, status : StatusParams, search : SearchParams,
   sort_by : SortByParams, order : OrderParams]

GroupQueries ==
  [type : {Undef}, status : StatusParams, search : SearchParams,
   sort_by : SortByParams, order : OrderParams]

\* The ids asked for: the four of the file, one of them in lower case, one of
\* no device, and the two path literals (one in another letter case).
ModelIds == {I_a1, I_a2, I_p1, I_p2, I_a1_lower, S_nope, S_macbook_air, S_macbook_pro,
             S_MacBook_Air}

Request(path, query) == [active |-> TRUE, path |-> path, query |-> query]

NoRequest == [active |-> FALSE, path |-> <<>>, query |-> NoQuery]

Requests ==
  {Request(<<S_api, S_devices>>, q) : q \in DevicesQueries}
    \cup {Request(<<S_api, S_devices, g>>, q) : g \in {S_macbook_air, S_macbook_pro}, q \in GroupQueries}
    \cup {Request(DevicePath(id), NoQuery) : id \in ModelIds}
    \cup {Request(p, NoQuery) : p \in {<<S_health>>, <<S_api, S_support_dash_status>>,
                                       <<S_api, S_docs>>, <<>>, <<S_nope>>}}

\* The values new Date().toISOString() takes.
Timestamps == {"t1", "t2"}

\* ------------------------------------------------------------ the state
\* pc           where the process is: "start", "loaded", "listening", "exited"
\* engine       the sort of the JavaScript engine that runs the process
\* source       what the load found at the path of the data file
\* macbookData  the module variable the handlers read
\* req          the request being answered, NoRequest between requests
\* res          the responses sent to req
\* again        whether req is being made for the second time

Init ==
  /\ pc = "start"
  /\ engine \in Engines
  /\ source = "unread"
  /\ macbookData = Unassigned
  /\ req = NoRequest
  /\ res = <<>>
  /\ again = FALSE

\* try { readFileSync; JSON.parse } catch { process.exit(1) }
LoadData ==
  /\ pc = "start"
  /\ \E src \in Sources :
       /\ source' = src.kind
       /\ IF src.kind = "json"
            THEN /\ pc' = "loaded"
                 /\ macbookData' = src.doc
            ELSE /\ pc' = "exited"
                 /\ UNCHANGED macbookData
  /\ UNCHANGED <<engine, req, res, again>>

\* app.listen(PORT, ...)
Listen ==
  /\ pc = "loaded"
  /\ pc' = "listening"
  /\ UNCHANGED <<engine, source, macbookData, req, res, again>>

\* A request reaches the handler of the first route it matches: a new request
\* when none is being answered, or the same request made once more.
Serve(route, r) ==
  /\ pc = "listening"
  /\ Route(r.path) = route
  /\ \/ ~req.active /\ again' = FALSE
     \/ req = r /\ ~again /\ again' = TRUE
  /\ req' = r
  /\ UNCHANGED <<pc, engine, source>>

\* The requests a handler may be given in this state.
Incoming == IF req.active THEN {req} ELSE Requests

\* app.get('/health')
Health ==
  \E r \in Incoming, ts \in Timestamps :
    /\ Serve("/health", r)
    /\ res' = <<Json(200, [status |-> "healthy", timestamp |-> ts, version |-> "1.0.0"])>>
    /\ UNCHANGED macbookData

\* app.get('/api/devices')
GetDevices ==
  \E r \in Incoming :
    /\ Serve("/api/devices", r)
    /\ LET e == devicesPipeline(macbookData, r.query)
       IN /\ res' = <<IF e.thrown # "" THEN InternalError(e.thrown)
                                       ELSE ListWithMetadata(e, macbookData)>>
          /\ macbookData' = Store(macbookData, e)

\* app.get('/api/devices/macbook-air')
GetMacbookAir ==
  \E r \in Incoming :
    /\ Serve("/api/devices/macbook-air", r)
    /\ LET e == groupPipeline(macbookData, "air", r.query)
       IN /\ res' = <<IF e.thrown # "" THEN InternalError(e.thrown) ELSE List(e)>>
          /\ macbookData' = Store(macbookData, e)

\* app.get('/api/devices/macbook-pro')
GetMacbookPro ==
  \E r \in Incoming :
    /\ Serve("/api/devices/macbook-pro", r)
    /\ LET e == groupPipeline(macbookData, "pro", r.query)
       IN /\ res' = <<IF e.thrown # "" THEN InternalError(e.thrown) ELSE List(e)>>
          /\ macbookData' = Store(macbookData, e)

\* app.get('/api/devices/:modelId')
GetDeviceById ==
  \E r \in Incoming :
    /\ Serve("/api/devices/:modelId", r)
    /\ res' = <<lookupResponse(macbookData, r.path[3])>>
    /\ UNCHANGED macbookData

\* app.get('/api/support-status')
GetSupportStatus ==
  \E r \in Incoming :
    /\ Serve("/api/support-status", r)
    /\ res' = <<supportStatusResponse(macbookData)>>
    /\ UNCHANGED macbookData

\* app.get('/api/docs')
GetDocs ==
  \E r \in Incoming :
    /\ Serve("/api/docs", r)
    /\ res' = <<Json(200, Obj("documentation"))>>
    /\ UNCHANGED macbookData

\* app.get('/')
GetRoot ==
  \E r \in Incoming :
    /\ Serve("/", r)
    /\ res' = <<Json(200, Obj("banner"))>>
    /\ UNCHANGED macbookData

\* app.use('*'): the 404 handler
NotFound ==
  \E r \in Incoming :
    /\ Serve("*", r)
    /\ res' = <<Json(404, [success |-> FALSE, error |-> "Endpoint not found",
                           message |-> <<"The endpoint ", r.path, " does not exist">>])>>
    /\ UNCHANGED macbookData

\* The exchange is over; the next request may be any.
Close ==
  /\ req.active
  /\ req' = NoRequest
  /\ res' = <<>>
  /\ again' = FALSE
  /\ UNCHANGED <<pc, engine, source, macbookData>>

Next ==
  \/ LoadData
  \/ Listen
  \/ Health
  \/ GetDevices
  \/ GetMacbookAir
  \/ GetMacbookPro
  \/ GetDeviceById
  \/ GetSupportStatus
  \/ GetDocs
  \/ GetRoot
  \/ NotFound
  \/ Close

Spec == Init /\ [][Next]_vars

\* ================================================================ claims
\* What the claims speak of, stated apart from the handlers' code.

Air == macbookData.macbook_models.macbook_air

Pro == macbookData.macbook_models.macbook_pro

\* A request has been answered.
Answered == pc = "listening" /\ req.active /\ res # <<>>

\* s is the literal lit written in some letter case.
InSomeCase(s, lit) ==
  /\ Len(s) = Len(lit)
  /\ \A i \in 1..Len(lit) : s[i] = lit[i] \/ (lit[i] >= 97 /\ lit[i] <= 122 /\ s[i] = lit[i] - 32)

\* The answered request is GET /api/devices, or one of the three list routes.
OnDevices == Answered /\ req.path = <<S_api, S_devices>>

OnAirRoute == Answered /\ Len(req.path) = 3 /\ req.path[1] = S_api /\ req.path[2] = S_devices
                /\ InSomeCase(req.path[3], S_macbook_air)

OnProRoute == Answered /\ Len(req.path) = 3 /\ req.path[1] = S_api /\ req.path[2] = S_devices
                /\ InSomeCase(req.path[3], S_macbook_pro)

OnList == OnDevices \/ OnAirRoute \/ OnProRoute

\* The type parameter is absent or a string.
PlainType == req.query.type = Undef \/ req.query.type.t = "string"

\* The devices the Collection Selector picks for the answered list request.
Selected ==
  IF OnAirRoute THEN Air
  ELSE IF OnProRoute THEN Pro
  ELSE IF req.query.type.t = "string" /\ InSomeCase(req.query.type.v, S_air) THEN Air
  ELSE IF req.query.type.t = "string" /\ InSomeCase(req.query.type.v, S_pro) THEN Pro
  ELSE Air \o Pro

\* The devices of ds whose support_status is exactly the string value.
WithStatus(ds, value) == SelectSeq(ds, LAMBDA d : d.support_status = Str(value))

\* The selected devices a status parameter keeps: all when it is absent or empty.
StatusKept ==
  IF req.query.status.t = "string" /\ req.query.status.v # S_empty
    THEN WithStatus(Selected, req.query.status.v)
    ELSE Selected

\* The device matches the term in one of the three searched fields.
MatchesTerm(d, term) ==
  \E f \in {"model_name", "model_id", "support_status"} :
    includes(toLowerCase(d[f].v), toLowerCase(term))

\* The devices the search parameter keeps of StatusKept.
SearchKept ==
  IF req.query.search.t = "string"
    THEN SelectSeq(StatusKept, LAMBDA d : MatchesTerm(d, req.query.search.v))
    ELSE StatusKept

\* The body of the one response, when it is a success.
Succeeded == Len(res) = 1 /\ res[1].status = 200 /\ res[1].body.success = TRUE

Data == res[1].body.data

\* The same elements, each as often.
IsPermutation(a, b) ==
  /\ Len(a) = Len(b)
  /\ \A i \in 1..Len(a) :
       Cardinality({j \in 1..Len(a) : a[j] = a[i]}) = Cardinality({j \in 1..Len(b) : b[j] = a[i]})

\* The calendar date a date string writes, as <<year, month, day>>.
Calendar(x) ==
  <<Digit(x.v[1]) * 1000 + Digit(x.v[2]) * 100 + Digit(x.v[3]) * 10 + Digit(x.v[4]),
    Digit(x.v[6]) * 10 + Digit(x.v[7]), Digit(x.v[9]) * 10 + Digit(x.v[10])>>

\* Calendar date a is not later than calendar date b.
NotLater(a, b) ==
  \/ a[1] < b[1]
  \/ a[1] = b[1] /\ a[2] < b[2]
  \/ a[1] = b[1] /\ a[2] = b[2] /\ a[3] <= b[3]

\* ------------------------------------------------------------------ C1

\* The answered request is GET /api/devices/<id>.
OnDevicePath ==
  Answered /\ Len(req.path) = 3 /\ req.path[1] = S_api /\ req.path[2] = S_devices

\* The answer is the round trip's: the success envelope with the Device of
\* the requested model_id when the dataset has one, the 404 'Device not found'
\* envelope when it has none.
RoundTrip ==
  LET id == req.path[3]
      all == Air \o Pro
  IN /\ Len(res) = 1
     /\ IF \E i \in 1..Len(all) : all[i].model_id = Str(id)
          THEN /\ res[1].status = 200
               /\ res[1].body.success = TRUE
               /\ \E i \in 1..Len(all) : all[i] = res[1].body.data
               /\ res[1].body.data.model_id = Str(id)
          ELSE /\ res[1].status = 404
               /\ res[1].body.success = FALSE
               /\ res[1].body.error = "Device not found"

\* C1 as stated: the round trip holds for every id string: a present id gets
\* its Device, every absent id gets the 404 'Device not found' envelope.
C1_RoundTripEveryId == (OnDevicePath /\ Populated(macbookData)) => RoundTrip

\* C1 amended: the round trip holds for every id (a non-empty path segment)
\* other than 'macbook-air' and 'macbook-pro' written in any letter case.
C1_RoundTrip ==
  (/\ OnDevicePath
   /\ ~InSomeCase(req.path[3], S_macbook_air)
   /\ ~InSomeCase(req.path[3], S_macbook_pro)
   /\ Populated(macbookData)) => RoundTrip

\* C1 witness: an id of the second group is looked up past two Air devices.
C1_Witness ==
  /\ OnDevicePath /\ Populated(macbookData)
  /\ req.path[3] = I_p1
  /\ Len(Air) = 2
  /\ res[1].status = 200
  /\ res[1].body.data = dev_p1

\* ------------------------------------------------------- C2, C3 and C10

\* The answered list request asks for a sort.
Sorting == OnList /\ req.query.sort_by.t = "string" /\ req.query.sort_by.v # S_empty

\* The request raises nothing before the sort: the store is populated, type
\* and search are absent or strings.
Regular ==
  /\ PlainType
  /\ req.query.search = Undef \/ req.query.search.t = "string"
  /\ Populated(macbookData)

\* The two devices have equal sort keys: the same calendar date under a date
\* key, the same value (or both none) under another key.
SameKey(a, b) ==
  IF req.query.sort_by \in {Str(S_release_date), Str(S_supported_end_date)}
    THEN Calendar(Get(a, req.query.sort_by)) = Calendar(Get(b, req.query.sort_by))
    ELSE Get(a, req.query.sort_by) = Get(b, req.query.sort_by)

\* The place of device d in ds.
Position(ds, d) == CHOOSE i \in 1..Len(ds) : ds[i] = d

\* C2 as stated: the sort is stable: two devices with equal sort keys are in
\* the output in the relative order they had in the input of the sort.
C2_Stable ==
  (Sorting /\ Regular /\ Succeeded) =>
     \A i, j \in 1..Len(Data) :
        (i < j /\ SameKey(Data[i], Data[j]))
          => Position(SearchKept, Data[i]) < Position(SearchKept, Data[j])

\* C3: sorted by release_date or supported_end_date, the output is in
\* chronological order of the calendar dates: not decreasing with order=asc,
\* not increasing with order=desc or no order.
C3_Chronological ==
  (/\ Sorting /\ Regular
   /\ req.query.sort_by \in {Str(S_release_date), Str(S_supported_end_date)}
   /\ req.query.order \in {Undef, Str(S_asc), Str(S_desc)}) =>
     /\ Succeeded
     /\ \A i \in 1..(Len(Data) - 1) :
          LET this == Calendar(Get(Data[i], req.query.sort_by))
              next == Calendar(Get(Data[i + 1], req.query.sort_by))
          IN IF req.query.order = Str(S_asc) THEN NotLater(this, next)
                                             ELSE NotLater(next, this)

\* C3 witness: an ascending sort by release_date that moved devices of
\* different dates.
C3_Witness ==
  /\ Sorting /\ Regular /\ Succeeded
  /\ req.query.sort_by = Str(S_release_date)
  /\ req.query.order = Str(S_asc)
  /\ Len(Data) >= 3
  /\ Data # SearchKept
  /\ Data[1].release_date # Data[Len(Data)].release_date

\* C10: with a sort_by that names a field no device has, the request succeeds
\* and data is a permutation of what the same query gives without sort_by.
C10_UnknownKey ==
  (Sorting /\ Regular /\ req.query.sort_by = Str(S_foo)) =>
     /\ Succeeded
     /\ IsPermutation(Data, SearchKept)
     /\ res[1].body.count = Len(SearchKept)

\* C10 witness: a sort by 'foo' answered with the devices in another order.
C10_Witness ==
  /\ Sorting /\ Regular /\ Succeeded
  /\ req.query.sort_by = Str(S_foo)
  /\ Len(Data) >= 3
  /\ Data # SearchKept

\* ------------------------------------------------------------------ C4

\* C4: once loaded, no step changes macbookData (the two arrays and the
\* metadata stay as the load left them), and a request made again gets the
\* response it got before (/health, with its timestamp, apart).
C4_Immutable ==
  [][/\ pc # "start" => macbookData' = macbookData
     /\ (req.active /\ req' = req /\ req.path # <<S_health>>) => res' = res]_vars

\* C4 witness: GET /api/devices?type=air&sort_by=... answered a second time
\* with the Air devices in another order than the store's array has them.
C4_Witness ==
  /\ OnDevices /\ again /\ Sorting /\ Succeeded
  /\ req.query.type = Str(S_air)
  /\ Len(Data) = 2
  /\ Data # Air

\* ------------------------------------------------------------------ C5

\* The response is a list whose devices all have the requested status and
\* whose count is its length; with no search and no sort it is exactly the
\* selected devices of that status, in their order.
StatusFiltered ==
  /\ Succeeded
  /\ res[1].body.count = Len(Data)
  /\ \A i \in 1..Len(Data) : Data[i].support_status = req.query.status
  /\ (req.query.search = Undef /\ req.query.sort_by = Undef)
       => Data = WithStatus(Selected, req.query.status.v)

\* C5 as stated: for every status string that is not absent, the result is
\* the subsequence of devices whose support_status equals it exactly.
C5_StatusFilterEveryString ==
  (OnList /\ Regular /\ req.query.status.t = "string") => StatusFiltered

\* C5 amended: for every non-empty status string, the result is the
\* subsequence of devices whose support_status equals it exactly (an unknown
\* status gives an empty success), and count is the length of data.
C5_StatusFilter ==
  (OnList /\ Regular /\ req.query.status.t = "string" /\ req.query.status.v # S_empty)
    => StatusFiltered

\* C5 witness: status=vintage keeps one of four devices.
C5_Witness ==
  /\ OnDevices /\ Regular /\ Succeeded
  /\ req.query.status = Str(S_vintage)
  /\ req.query.search = Undef /\ req.query.sort_by = Undef
  /\ Len(Selected) = 4
  /\ Data = <<dev_a2>>

\* ------------------------------------------------------------------ C6

\* C6: on each list route the result of a search is the devices, among those
\* selected and kept by the status filter, that hold lowercase(t) in the
\* lowercased model_name, model_id or support_status: all of them and no other.
C6_Search ==
  (OnList /\ Regular /\ req.query.search.t = "string") =>
     /\ Succeeded
     /\ \A i \in 1..Len(Data) : MatchesTerm(Data[i], req.query.search.v)
     /\ \A k \in 1..Len(StatusKept) :
          MatchesTerm(StatusKept[k], req.query.search.v)
            => \E i \in 1..Len(Data) : Data[i] = StatusKept[k]
     /\ req.query.sort_by = Undef => Data = SearchKept

\* C6 witness: on the Air route, search=Vintage finds one of two devices by
\* its support_status.
C6_Witness ==
  /\ OnAirRoute /\ Regular /\ Succeeded
  /\ req.query.search = Str(S_Vintage)
  /\ req.query.status = Undef
  /\ Len(Air) = 2
  /\ Data = <<dev_a2>>

\* ------------------------------------------------------------------ C7

\* C7: on GET /api/devices, type 'air' in any letter case selects macbook_air,
\* 'pro' in any letter case selects macbook_pro, no type or any other string
\* selects macbook_air followed by macbook_pro; the response is a success.
C7_Selector ==
  (/\ OnDevices /\ PlainType /\ Populated(macbookData)
   /\ req.query.status = Undef /\ req.query.search = Undef /\ req.query.sort_by = Undef) =>
     /\ Succeeded
     /\ Data = Selected

\* C7 witness: type=Pro answered with the two Pro devices of a store that
\* has Air devices too.
C7_Witness ==
  /\ OnDevices /\ Succeeded
  /\ req.query.type = Str(S_Pro)
  /\ req.query.status = Undef /\ req.query.search = Undef /\ req.query.sort_by = Undef
  /\ Len(Air) >= 1
  /\ Len(Pro) = 2
  /\ Data = Pro

\* ------------------------------------------------------------------ C8

\* The load left both device groups and the metadata in macbookData.
GroupsAndMetadata ==
  /\ macbookData.t = "object"
  /\ macbookData.macbook_models.t = "object"
  /\ macbookData.support_status_definitions # Undef
  /\ macbookData.notes # Undef

\* C8 as stated: a missing or malformed source ends the process before it
\* listens, and a request is answered only after a load that populated both
\* device groups and the metadata.
C8_FailFast ==
  /\ source \in {"missing", "unparseable"} => pc = "exited"
  /\ pc = "listening" => source = "json"
  /\ Answered => GroupsAndMetadata

\* ------------------------------------------------------------------ C9

\* The answered request is one of the four device handlers'.
OnDeviceHandler == OnDevices \/ OnDevicePath

\* Reading the three searched fields of d in turn, one is missing before any
\* holds the term.
LacksSearchedField(d, term) ==
  LET F == <<"model_name", "model_id", "support_status">>
  IN \E k \in 1..3 :
       /\ d[F[k]] = Undef
       /\ \A j \in 1..(k - 1) :
            d[F[j]] # Undef /\ ~includes(toLowerCase(d[F[j]].v), toLowerCase(term))

\* The pipeline of the answered request raises an exception: the store has no
\* device groups, type or search is not a string, or the search meets a device
\* that lacks a searched field.
Faulty ==
  \/ macbookData.t # "object"
  \/ macbookData.macbook_models.t # "object"
  \/ OnDevices /\ req.query.type = ArrayParam
  \/ OnList /\ req.query.search = ArrayParam
  \/ /\ OnList /\ PlainType
     /\ req.query.search.t = "string" /\ req.query.search.v # S_empty
     /\ \E k \in 1..Len(StatusKept) : LacksSearchedField(StatusKept[k], req.query.search.v)

\* C9: each of the four device handlers sends exactly one response; when the
\* pipeline raises an exception it is the 500 envelope {success: false, error:
\* 'Internal server error', message}, and the server goes on listening.
C9_Contained ==
  OnDeviceHandler =>
     /\ Len(res) = 1
     /\ pc = "listening"
     /\ Faulty => /\ res[1].status = 500
                  /\ res[1].body.success = FALSE
                  /\ res[1].body.error = "Internal server error"
                  /\ res[1].body.message # ""

\* C9 witness: a search that meets a device without model_id is answered 500.
C9_Witness ==
  /\ OnDevices /\ Faulty
  /\ macbookData = IncompleteRecordDocument
  /\ req.query.type = Undef
  /\ req.query.search = Str(S_Vintage)
  /\ res[1].status = 500

====
